---- MODULE Spec2Model ----
(***************************************************************************)
(* ugit: a content-addressed object store, a tree codec over the working   *)
(* directory, a reference resolver and a commit graph (src/src/data.rs,    *)
(* src/src/base.rs).                                                       *)
(*                                                                         *)
(* Strings and byte strings are sequences of integers.  An item >= 0 is a  *)
(* byte.  Two kinds of negative items stand for text the code only ever    *)
(* handles as a whole:                                                     *)
(*   - DigestOpen .. DigestClose bracket the lowercase hex rendering of a  *)
(*     SHA-256 digest; what is between the brackets is the hashed input,   *)
(*     so the digest is injective (the collision-free assumption).  Every  *)
(*     item of such a span is a hex digit for the code, so the scanning    *)
(*     operators below work on the nesting level of an item.               *)
(*   - P_OBJECTS, P_HEADS, P_TAGS, P_HEAD are the absolute path prefixes   *)
(*     <cwd>/.ugit/objects/, <cwd>/.ugit/refs/heads/, <cwd>/.ugit/refs/    *)
(*     tags/ and the path <cwd>/.ugit/HEAD.                                *)
(***************************************************************************)
EXTENDS Integers, Sequences, FiniteSets, TLC

VARIABLES repo, fs, wdFiles, wdDirs, ret

vars == <<repo, fs, wdFiles, wdDirs, ret>>

----
\* Characters and literals

NUL == 0
LF == 10
SP == 32
COLON == 58
DigestOpen == -1
DigestClose == -2
P_OBJECTS == -11
P_HEADS == -12
P_TAGS == -13
P_HEAD == -14

S_blob == <<98, 108, 111, 98>>
S_commit == <<99, 111, 109, 109, 105, 116>>
S_tree == <<116, 114, 101, 101>>
S_parent == <<112, 97, 114, 101, 110, 116>>
S_ref == <<114, 101, 102, 58>>
S_ugit == <<46, 117, 103, 105, 116>>
S_target == <<116, 97, 114, 103, 101, 116>>
S_HEAD == <<72, 69, 65, 68>>
S_at == <<64>>

ObjectType == {"blob", "commit", "tree"}

HexChars == (48..57) \cup (97..102)

----
\* String scanning

Min(S) == CHOOSE x \in S : \A y \in S : x <= y

\* Nesting level of item i: > 0 for every item of a digest span.
Lvl(s, i) ==
  Cardinality({j \in 1..i : s[j] = DigestOpen})
    - Cardinality({j \in 1..(i - 1) : s[j] = DigestClose})

TopIdx(s, ch) == {i \in 1..Len(s) : s[i] = ch /\ Lvl(s, i) = 0}

StartsWith(s, pre) ==
  /\ Len(s) >= Len(pre)
  /\ SubSeq(s, 1, Len(pre)) = pre

\* str::splitn(2, ch): one part when ch does not occur, else the text before
\* the first ch and everything after it.
SplitN2(s, ch) ==
  IF TopIdx(s, ch) = {}
  THEN <<s>>
  ELSE LET i == Min(TopIdx(s, ch))
       IN <<SubSeq(s, 1, i - 1), SubSeq(s, i + 1, Len(s))>>

\* String::from_utf8 / fs::read_to_string: one-byte and two-byte encodings;
\* the byte alphabet of the model has no lead byte of a longer encoding.
ValidUtf8(s) ==
  \A i \in 1..Len(s) :
    (s[i] >= 128 /\ Lvl(s, i) = 0) =>
       \/ /\ s[i] \in 194..223
          /\ i < Len(s)
          /\ s[i + 1] \in 128..191
       \/ /\ s[i] \in 128..191
          /\ i > 1
          /\ s[i - 1] \in 194..223

is_hex(s) == \A i \in 1..Len(s) : s[i] \in HexChars \/ Lvl(s, i) > 0

\* Sha256 followed by format!("{:x}")
Sha256Hex(contents) == <<DigestOpen>> \o contents \o <<DigestClose>>

----
\* Paths

IsAbsolute(p) == p # <<>> /\ p[1] <= P_OBJECTS

\* PathBuf::push: an absolute argument replaces the path.
PathPush(base, name) == IF IsAbsolute(name) THEN name ELSE base \o name

PathOID(oid) == PathPush(<<P_OBJECTS>>, oid)
PathBranch(name) == PathPush(<<P_HEADS>>, name)
PathTag(name) == PathPush(<<P_TAGS>>, name)
PathHead == <<P_HEAD>>

\* Path::is_file and fs::read on a path: absolute paths are looked up under
\* .ugit, relative ones name an entry of the current directory.
IsFileP(f, w, p) ==
  IF IsAbsolute(p) THEN p \in DOMAIN f ELSE <<p>> \in DOMAIN w

ReadP(f, w, p) == IF IsAbsolute(p) THEN f[p] ELSE w[<<p>>]

WriteF(f, p, c) == [q \in DOMAIN f \cup {p} |-> IF q = p THEN c ELSE f[q]]

EmptyF == [q \in {} |-> <<>>]

----
\* Results of operations

Res(st, val) == [st |-> st, val |-> val]

Ret(op, st, val, arg, typ) ==
  [op |-> op, st |-> st, val |-> val, has |-> (st = "ok"), sym |-> FALSE,
   arg |-> arg, typ |-> typ, deref |-> FALSE, arg2 |-> <<>>]

\* For the ref operations: has and sym are those of the RefValue returned
\* (reads) or passed (writes) and arg is the location.
RetRef(op, st, val, has, sym, arg, arg2, deref) ==
  [op |-> op, st |-> st, val |-> val, has |-> has, sym |-> sym,
   arg |-> arg, typ |-> "", deref |-> deref, arg2 |-> arg2]

----
\* Object store (data.rs)

TagBytes(object_type) ==
  CASE object_type = "blob" -> S_blob
    [] object_type = "commit" -> S_commit
    [] object_type = "tree" -> S_tree

\* The bytes hash_object stores and the OID it returns.
ObjectContents(file_contents, object_type) ==
  TagBytes(object_type) \o <<NUL>> \o file_contents

hash_object(file_contents, object_type) ==
  Sha256Hex(ObjectContents(file_contents, object_type))

get_object(f, r, oid, expected_type) ==
  LET file_path == PathOID(oid) IN
  IF ~r THEN Res("RepositoryNotFound", <<>>)
  ELSE IF file_path \notin DOMAIN f THEN Res("ObjectNotFound", <<>>)
  ELSE IF ~ValidUtf8(f[file_path]) THEN Res("InvalidUtf8", <<>>)
  ELSE LET content_parts == SplitN2(f[file_path], NUL) IN
       IF content_parts[1] # TagBytes(expected_type)
       THEN Res("TypeMismatch", <<>>)
       ELSE IF Len(content_parts) < 2 THEN Res("panic", <<>>)
       ELSE Res("ok", content_parts[2])

ObjPaths(f) == {p \in DOMAIN f : p[1] = P_OBJECTS}

Overlay(f, g) ==
  [q \in DOMAIN f \cup DOMAIN g |-> IF q \in DOMAIN g THEN g[q] ELSE f[q]]

----
\* More string scanning

\* str::lines: split at every line feed, no empty piece after a final one.
\* (The model's alphabet has no carriage return.)
RECURSIVE Lines(_)
Lines(s) ==
  IF s = <<>> THEN <<>>
  ELSE IF TopIdx(s, LF) = {} THEN <<s>>
  ELSE LET i == Min(TopIdx(s, LF))
       IN <<SubSeq(s, 1, i - 1)>> \o Lines(SubSeq(s, i + 1, Len(s)))

\* str::splitn(n, ch)
RECURSIVE SplitN(_, _, _)
SplitN(s, n, ch) ==
  IF n <= 1 \/ TopIdx(s, ch) = {} THEN <<s>>
  ELSE LET i == Min(TopIdx(s, ch))
       IN <<SubSeq(s, 1, i - 1)>> \o SplitN(SubSeq(s, i + 1, Len(s)), n - 1, ch)

\* [String]::join(sep)
RECURSIVE Join(_, _)
Join(ls, sep) ==
  IF ls = <<>> THEN <<>>
  ELSE IF Len(ls) = 1 THEN ls[1]
  ELSE ls[1] \o sep \o Join(Tail(ls), sep)

----
\* Working directory and tree codec (base.rs).  A relative path is the
\* sequence of its component names; wf maps the paths of regular files to
\* their bytes and wd is the set of paths of directories.

Last(q) == q[Len(q)]

IsPrefix(a, b) == Len(a) <= Len(b) /\ SubSeq(b, 1, Len(a)) = a

ChildNames(wf, wd, path) ==
  {Last(q) : q \in {x \in DOMAIN wf \cup wd :
                       Len(x) = Len(path) + 1 /\ IsPrefix(path, x)}}

\* Path::ends_with compares whole components.
is_ignored(path) == Last(path) = S_ugit \/ Last(path) = S_target

\* fs::read_dir yields the entries of a directory in an order the platform
\* picks: ord maps every directory to one enumeration of its entries.
PermsOf(S) ==
  {q \in [1..Cardinality(S) -> S] : \A i, j \in 1..Cardinality(S) : q[i] = q[j] => i = j}

RECURSIVE OrdersFor(_, _, _)
OrdersFor(wf, wd, D) ==
  IF D = {} THEN {[d \in {} |-> <<>>]}
  ELSE LET d == CHOOSE x \in D : TRUE
       IN {[e \in DOMAIN o \cup {d} |-> IF e = d THEN p ELSE o[e]] :
             o \in OrdersFor(wf, wd, D \ {d}),
             p \in PermsOf(ChildNames(wf, wd, d))}

ReadDirOrders(wf, wd) == OrdersFor(wf, wd, wd \cup {<<>>})

EntryLine(object_type, oid, filename) ==
  TagBytes(object_type) \o <<SP>> \o oid \o <<SP>> \o filename

RECURSIVE write_tree_recursive(_, _, _, _)
RECURSIVE TreeEntries(_, _, _, _, _)

\* The (object_type, oid, filename) lines of the entries ord[path][k..].
TreeEntries(wf, wd, path, ord, k) ==
  IF k > Len(ord[path]) THEN <<>>
  ELSE LET name == ord[path][k]
           child == Append(path, name)
           rest == TreeEntries(wf, wd, path, ord, k + 1)
       IN IF is_ignored(child) THEN rest
          ELSE IF child \in DOMAIN wf
          THEN <<EntryLine("blob", hash_object(wf[child], "blob"), name)>> \o rest
          ELSE <<EntryLine("tree", write_tree_recursive(wf, wd, child, ord), name)>>
                 \o rest

\* The OID write_tree_recursive returns for the directory at path.
write_tree_recursive(wf, wd, path, ord) ==
  hash_object(Join(TreeEntries(wf, wd, path, ord, 1), <<LF>>), "tree")

\* A directory is visited when no component of its path is ignored.
Visited(path) == \A i \in 1..Len(path) : ~is_ignored(SubSeq(path, 1, i))

\* The object files the hash_object calls of write_tree write.
TreeObjects(wf, wd, ord) ==
  LET blobs == {q \in DOMAIN wf : Visited(q)}
      trees == {q \in wd \cup {<<>>} : Visited(q)}
      oidOfBlob(q) == hash_object(wf[q], "blob")
      out == {<<PathOID(oidOfBlob(q)), ObjectContents(wf[q], "blob")>> : q \in blobs}
               \cup
             {<<PathOID(write_tree_recursive(wf, wd, q, ord)),
                ObjectContents(Join(TreeEntries(wf, wd, q, ord, 1), <<LF>>), "tree")>> :
                  q \in trees}
  IN [pth \in {o[1] : o \in out} |-> (CHOOSE o \in out : o[1] = pth)[2]]

\* get_tree: the (path, blob OID) pairs of a tree, or the first failure.
RECURSIVE get_tree(_, _, _, _)
RECURSIVE TreeWalk(_, _, _, _, _)

TreeWalk(f, r, lines, base_path, k) ==
  IF k > Len(lines) THEN [st |-> "ok", pairs |-> <<>>]
  ELSE LET object_parts == SplitN(lines[k], 3, SP) IN
       IF Len(object_parts) < 3 THEN [st |-> "panic", pairs |-> <<>>]
       ELSE LET path == Append(base_path, object_parts[3])
                here == IF object_parts[1] = S_blob
                        THEN [st |-> "ok", pairs |-> <<<<path, object_parts[2]>>>>]
                        ELSE IF object_parts[1] = S_tree
                        THEN get_tree(f, r, object_parts[2], path)
                        ELSE [st |-> "UnsupportedEntryKind", pairs |-> <<>>]
            IN IF here.st # "ok" THEN [st |-> here.st, pairs |-> <<>>]
               ELSE LET rest == TreeWalk(f, r, lines, base_path, k + 1)
                    IN IF rest.st # "ok" THEN rest
                       ELSE [st |-> "ok", pairs |-> here.pairs \o rest.pairs]

get_tree(f, r, oid, base_path) ==
  LET object == get_object(f, r, oid, "tree")
  IN IF object.st # "ok" THEN [st |-> object.st, pairs |-> <<>>]
     ELSE TreeWalk(f, r, Lines(object.val), base_path, 1)

\* empty_current_directory: what is left of the current directory.  The
\* entry .ugit of the current directory is the repository itself.
EmptiedFiles(wf) == {q \in DOMAIN wf : is_ignored(<<q[1]>>)}
EmptiedDirs(wd) == {q \in wd : is_ignored(<<q[1]>>)}
EmptiedKeepsRepo == is_ignored(<<S_ugit>>)

\* The loop of read_tree over the pairs: create_dir_all, get_object, write.
RECURSIVE Restore(_, _, _, _, _, _)
Restore(f, r, wf, wd, pairs, k) ==
  IF k > Len(pairs) THEN [st |-> "ok", wf |-> wf, wd |-> wd]
  ELSE LET path == pairs[k][1]
           parents == {SubSeq(path, 1, i) : i \in 1..(Len(path) - 1)}
           contents == get_object(f, r, pairs[k][2], "blob")
       IN IF parents \cap DOMAIN wf # {}
          THEN [st |-> "NotADirectory", wf |-> wf, wd |-> wd]
          ELSE IF contents.st # "ok"
          THEN [st |-> contents.st, wf |-> wf, wd |-> wd \cup parents]
          ELSE IF path \in wd \/ (\E q \in DOMAIN wf : q # path /\ IsPrefix(path, q))
          THEN [st |-> "IsADirectory", wf |-> wf, wd |-> wd \cup parents]
          ELSE Restore(f, r,
                       [q \in DOMAIN wf \cup {path} |->
                          IF q = path THEN contents.val ELSE wf[q]],
                       wd \cup parents, pairs, k + 1)

\* read_tree: the state it leaves and its result.
read_tree(f, r, wf, wd, root_oid) ==
  IF ~r THEN [st |-> "panic", f |-> f, r |-> r, wf |-> wf, wd |-> wd]
  ELSE LET r2 == EmptiedKeepsRepo
           f2 == IF r2 THEN f ELSE EmptyF
           wf2 == [q \in EmptiedFiles(wf) |-> wf[q]]
           wd2 == EmptiedDirs(wd)
           tree == get_tree(f2, r2, root_oid, <<>>)
       IN IF tree.st # "ok"
          THEN [st |-> tree.st, f |-> f2, r |-> r2, wf |-> wf2, wd |-> wd2]
          ELSE LET done == Restore(f2, r2, wf2, wd2, tree.pairs, 1)
               IN [st |-> done.st, f |-> f2, r |-> r2, wf |-> done.wf, wd |-> done.wd]

----
\* Reference resolver (data.rs).  A RefValue is [symbolic, has, value, path]
\* with has = FALSE for value: None.

RefValue(symbolic, has, value, path) ==
  [symbolic |-> symbolic, has |-> has, value |-> value, path |-> path]

RefRes(st, symbolic, has, value, path) ==
  [st |-> st, symbolic |-> symbolic, has |-> has, value |-> value, path |-> path]

\* recur_deref with the dereference flag ignored: every pointer is followed.
RECURSIVE recur_deref_follows(_, _, _, _, _)
recur_deref_follows(f, w, path, deref, seen) ==
  IF path \in seen THEN Res("StackOverflow", <<>>)
  ELSE IF ~IsFileP(f, w, path) THEN Res("ReadError", <<>>)
  ELSE IF ~ValidUtf8(ReadP(f, w, path)) THEN Res("InvalidUtf8", <<>>)
  ELSE LET contents == ReadP(f, w, path) IN
       IF StartsWith(contents, S_ref)
       THEN recur_deref_follows(f, w, SplitN2(contents, COLON)[2], deref,
                                seen \cup {path})
       ELSE Res("ok", contents)

\* recur_deref.  seen holds the paths already on the call stack: reading one
\* of them again recurses without end, and the process dies of stack overflow.
RECURSIVE recur_deref(_, _, _, _, _)
recur_deref(f, w, path, deref, seen) ==
  IF path \in seen THEN Res("StackOverflow", <<>>)
  ELSE IF ~IsFileP(f, w, path) THEN Res("ReadError", <<>>)
  ELSE IF ~ValidUtf8(ReadP(f, w, path)) THEN Res("InvalidUtf8", <<>>)
  ELSE LET contents == ReadP(f, w, path) IN
       IF StartsWith(contents, S_ref)
       THEN LET content_parts == SplitN2(contents, COLON) IN
            IF deref
            THEN recur_deref(f, w, content_parts[2], deref, seen \cup {path})
            ELSE Res("ok", content_parts[2])
       ELSE Res("ok", contents)

\* get_ref_file: st = "none" is the None it returns for a missing file.
get_ref_file(f, r, w, path, deref) ==
  IF ~r THEN RefRes("RepositoryNotFound", FALSE, FALSE, <<>>, path)
  ELSE IF ~IsFileP(f, w, path) THEN RefRes("none", FALSE, FALSE, <<>>, path)
  ELSE LET value == recur_deref(f, w, path, deref, {}) IN
       IF value.st # "ok" THEN RefRes(value.st, FALSE, FALSE, <<>>, path)
       ELSE RefRes("ok", StartsWith(value.val, S_ref), TRUE, value.val, path)

get_ref(f, r, w, path, deref) ==
  LET maybe_ref_value == get_ref_file(f, r, w, path, deref) IN
  IF maybe_ref_value.st = "none"
  THEN RefRes("ok", FALSE, FALSE, <<>>, path)
  ELSE maybe_ref_value

get_head(f, r, w) ==
  LET maybe_ref_value == get_ref_file(f, r, w, PathHead, FALSE) IN
  [st |-> maybe_ref_value.st, val |-> maybe_ref_value.value]

validate_user_given_ref(f, oid) ==
  LET target == IF StartsWith(oid, S_ref) THEN SplitN2(oid, COLON)[2] ELSE oid
      path == PathOID(target)
  IN IF path \notin DOMAIN f THEN FALSE
     ELSE IF ValidUtf8(f[path]) /\ is_hex(f[path]) THEN TRUE
     ELSE SplitN2(f[path], NUL)[1] = S_commit

\* update_ref_file with the validation ahead of the repository check.
update_ref_file_validates_first(f, r, path, oid) ==
  IF ~validate_user_given_ref(f, oid) THEN [st |-> "panic", f |-> f]
  ELSE IF ~r THEN [st |-> "RepositoryNotFound", f |-> f]
  ELSE [st |-> "ok", f |-> WriteF(f, path, oid)]

\* update_ref_file: the result and the files under .ugit it leaves.
update_ref_file(f, r, path, oid) ==
  IF ~r THEN [st |-> "RepositoryNotFound", f |-> f]
  ELSE IF ~validate_user_given_ref(f, oid) THEN [st |-> "panic", f |-> f]
  ELSE [st |-> "ok", f |-> WriteF(f, path, oid)]

\* update_ref without the "ref:" marker on symbolic values.
update_ref_unmarked(f, r, w, ref_value, deref) ==
  LET got == get_ref(f, r, w, ref_value.path, deref) IN
  IF got.st # "ok" THEN [st |-> got.st, f |-> f]
  ELSE IF ~ref_value.has THEN [st |-> "panic", f |-> f]
  ELSE update_ref_file(f, r, got.path, ref_value.value)

update_ref(f, r, w, ref_value, deref) ==
  LET got == get_ref(f, r, w, ref_value.path, deref) IN
  IF got.st # "ok" THEN [st |-> got.st, f |-> f]
  ELSE IF ~ref_value.has THEN [st |-> "panic", f |-> f]
  ELSE update_ref_file(f, r, got.path,
                       IF ref_value.symbolic
                       THEN S_ref \o ref_value.value
                       ELSE ref_value.value)

set_head(f, r, oid) == update_ref_file(f, r, PathHead, oid)

\* locate_ref_or_oid: the four lookups in the order of the code.
LocateChecks(f, r, w, s) ==
  <<get_ref_file(f, r, w, PathTag(s), FALSE),
    get_ref_file(f, r, w, PathBranch(s), FALSE),
    get_ref_file(f, r, w, PathOID(s), FALSE)>>
    \o (IF s = S_HEAD \/ s = S_at
        THEN <<get_ref_file(f, r, w, PathHead, FALSE)>>
        ELSE <<>>)

locate_ref_or_oid(f, r, w, s) ==
  IF ~r THEN Res("RepositoryNotFound", <<>>)
  ELSE LET checks == LocateChecks(f, r, w, s)
           located == {i \in 1..Len(checks) : checks[i].st = "ok"}
           count_of_refs_located == Cardinality(located)
       IN IF count_of_refs_located = 0 THEN Res("none", <<>>)
          ELSE IF count_of_refs_located > 1 THEN Res("AmbiguousReference", <<>>)
          ELSE Res("ok", checks[CHOOSE i \in located : \A j \in located : j <= i].value)

----
\* Commit graph and checkout (base.rs).  commit reads and moves HEAD through
\* data::get_ref(RefVariant::Head) and data::update_ref(RefVariant::Head, oid),
\* the calls data.rs provides as get_head and set_head.

\* The commit record without its parent line.
CommitPayload_orphan(tree_oid, has_parent, head, message) ==
  S_tree \o <<SP>> \o tree_oid \o <<LF, LF>> \o message

CommitPayload(tree_oid, has_parent, head, message) ==
  IF has_parent
  THEN S_tree \o <<SP>> \o tree_oid \o <<LF>> \o S_parent \o <<SP>> \o head
         \o <<LF, LF>> \o message
  ELSE S_tree \o <<SP>> \o tree_oid \o <<LF, LF>> \o message

\* commit after write_tree returned tree_oid: the result and the files left.
commit(f, r, w, tree_oid, message) ==
  LET head == get_head(f, r, w) IN
  IF head.st \notin {"ok", "none"} THEN [st |-> head.st, val |-> <<>>, f |-> f]
  ELSE LET payload == CommitPayload(tree_oid, head.st = "ok", head.val, message)
           oid == hash_object(payload, "commit")
           stored == WriteF(f, PathOID(oid), ObjectContents(payload, "commit"))
           moved == set_head(stored, r, oid)
       IN [st |-> moved.st, val |-> IF moved.st = "ok" THEN oid ELSE <<>>,
           f |-> moved.f]

\* commit_store that returns the OID and stores nothing.
commit_store_skipped(f, r, w, tree_oid, message) ==
  LET head == get_head(f, r, w) IN
  IF head.st \notin {"ok", "none"} THEN [st |-> head.st, val |-> <<>>, f |-> f]
  ELSE [st |-> "ok",
        val |-> hash_object(CommitPayload(tree_oid, head.st = "ok", head.val, message),
                            "commit"),
        f |-> f]

\* commit from the read of HEAD to hash_object (base.rs:30-38): the OID of
\* the commit object and the files with the object stored.
commit_store(f, r, w, tree_oid, message) ==
  LET head == get_head(f, r, w) IN
  IF head.st \notin {"ok", "none"} THEN [st |-> head.st, val |-> <<>>, f |-> f]
  ELSE LET payload == CommitPayload(tree_oid, head.st = "ok", head.val, message)
           oid == hash_object(payload, "commit")
       IN [st |-> "ok", val |-> oid,
           f |-> WriteF(f, PathOID(oid), ObjectContents(payload, "commit"))]

\* The header loop of get_commit over lines[k..]: the fields read and the
\* index of the line after the blank one.
RECURSIVE CommitHeader(_, _, _, _, _)
CommitHeader(lines, k, tree, has_parent, parent) ==
  IF k > Len(lines)
  THEN [st |-> "ok", tree |-> tree, has_parent |-> has_parent,
        parent |-> parent, next |-> k]
  ELSE IF lines[k] = <<>>
  THEN [st |-> "ok", tree |-> tree, has_parent |-> has_parent,
        parent |-> parent, next |-> k + 1]
  ELSE LET object_parts == SplitN(lines[k], 2, SP) IN
       IF object_parts[1] \notin {S_tree, S_parent} \/ Len(object_parts) < 2
       THEN [st |-> "panic", tree |-> tree, has_parent |-> has_parent,
             parent |-> parent, next |-> k]
       ELSE IF object_parts[1] = S_tree
       THEN CommitHeader(lines, k + 1, object_parts[2], has_parent, parent)
       ELSE CommitHeader(lines, k + 1, tree, TRUE, object_parts[2])

CommitRes(st, tree, has_parent, parent, message) ==
  [st |-> st, tree |-> tree, has_parent |-> has_parent, parent |-> parent,
   message |-> message]

get_commit(f, r, oid) ==
  LET commit_obj == get_object(f, r, oid, "commit") IN
  IF commit_obj.st # "ok" THEN CommitRes(commit_obj.st, <<>>, FALSE, <<>>, <<>>)
  ELSE LET lines == Lines(commit_obj.val)
           header == CommitHeader(lines, 1, <<>>, FALSE, <<>>)
       IN IF header.st # "ok" \/ header.next > Len(lines)
          THEN CommitRes("panic", <<>>, FALSE, <<>>, <<>>)
          ELSE IF header.tree = <<>>
          THEN CommitRes("MissingTreeField", <<>>, FALSE, <<>>, <<>>)
          ELSE CommitRes("ok", header.tree, header.has_parent, header.parent,
                         Join(SubSeq(lines, header.next, Len(lines)), <<LF>>))

\* checkout that moves HEAD before it restores the tree.
checkout_head_first(f, r, wf, wd, oid) ==
  LET commit_rec == get_commit(f, r, oid) IN
  IF commit_rec.st # "ok"
  THEN [st |-> commit_rec.st, f |-> f, r |-> r, wf |-> wf, wd |-> wd]
  ELSE LET moved == set_head(f, r, oid) IN
       IF moved.st # "ok"
       THEN [st |-> moved.st, f |-> f, r |-> r, wf |-> wf, wd |-> wd]
       ELSE read_tree(moved.f, r, wf, wd, commit_rec.tree)

\* checkout: the result and the state left.
checkout(f, r, wf, wd, oid) ==
  LET commit_rec == get_commit(f, r, oid) IN
  IF commit_rec.st # "ok"
  THEN [st |-> commit_rec.st, f |-> f, r |-> r, wf |-> wf, wd |-> wd]
  ELSE LET restored == read_tree(f, r, wf, wd, commit_rec.tree) IN
       IF restored.st # "ok" THEN restored
       ELSE LET moved == set_head(restored.f, restored.r, oid)
            IN [st |-> moved.st, f |-> moved.f, r |-> restored.r,
                wf |-> restored.wf, wd |-> restored.wd]

\* create_tag: a direct ref under refs/tags.
create_tag(f, r, w, name, oid) ==
  update_ref(f, r, w, RefValue(FALSE, TRUE, oid, PathTag(name)), TRUE)

----
\* Repository discovery and init (data.rs) with the current directory of the
\* process and the directory tree explicit.  Directories are paths from the
\* top directory; cwd is the directory the process was started in.

S_objects == <<111, 98, 106, 101, 99, 116, 115>>
S_refs == <<114, 101, 102, 115>>
S_heads == <<104, 101, 97, 100, 115>>
S_tags == <<116, 97, 103, 115>>

\* Path::ancestors: the path itself and every directory above it.
Ancestors(path) == {SubSeq(path, 1, k) : k \in 0..Len(path)}

\* get_repository looking only in the current directory itself.
get_repository_cwd_only(wf, wd, cwd) ==
  IF Append(cwd, S_ugit) \in wd \cup DOMAIN wf
  THEN [has |-> TRUE, path |-> Append(cwd, S_ugit)]
  ELSE [has |-> FALSE, path |-> <<>>]

\* get_repository: the .ugit of the nearest ancestor that has one.
get_repository(wf, wd, cwd) ==
  LET found == {p \in Ancestors(cwd) : Append(p, S_ugit) \in wd \cup DOMAIN wf} IN
  IF found = {} THEN [has |-> FALSE, path |-> <<>>]
  ELSE [has |-> TRUE,
        path |-> Append(CHOOSE p \in found : \A q \in found : Len(q) <= Len(p),
                        S_ugit)]

repository_initialized(wf, wd, cwd) == get_repository(wf, wd, cwd).has

\* init: the result and the directories it leaves.  Each generate_path
\* finds the root created by the first create_dir.
init(wf, wd, cwd) ==
  IF repository_initialized(wf, wd, cwd)
  THEN [st |-> "RepositoryAlreadyExists", wd |-> wd]
  ELSE LET root == Append(cwd, S_ugit)
           made == wd \cup {root}
           path == get_repository(wf, made, cwd).path
       IN [st |-> "ok",
           wd |-> made \cup {Append(path, S_objects),
                              Append(path, S_refs),
                              Append(Append(path, S_refs), S_heads),
                              Append(Append(path, S_refs), S_tags)}]

\* path lies in the directory dir or below it.
Under(dir, path) ==
  /\ Len(path) > Len(dir)
  /\ SubSeq(path, 1, Len(dir)) = dir

\* empty_current_directory without the test for .ugit in the current directory.
empty_current_directory_unguarded(wf, wd, cwd) ==
  LET removed == {e \in DOMAIN wf \cup wd :
                    Under(cwd, e) /\ Len(e) = Len(cwd) + 1 /\ ~is_ignored(e)}
      gone(q) == \E e \in removed : q = e \/ Under(e, q)
  IN [st |-> "ok",
      wf |-> [q \in {x \in DOMAIN wf : ~gone(x)} |-> wf[q]],
      wd |-> {q \in wd : ~gone(q)}]

\* empty_current_directory started in cwd: the files and directories it
\* leaves.  remove_file takes a file entry, remove_dir_all a directory entry
\* with everything below it.
empty_current_directory(wf, wd, cwd) ==
  IF Append(cwd, S_ugit) \notin wd THEN [st |-> "panic", wf |-> wf, wd |-> wd]
  ELSE LET removed == {e \in DOMAIN wf \cup wd :
                         Under(cwd, e) /\ Len(e) = Len(cwd) + 1 /\ ~is_ignored(e)}
           gone(q) == \E e \in removed : q = e \/ Under(e, q)
       IN [st |-> "ok",
           wf |-> [q \in {x \in DOMAIN wf : ~gone(x)} |-> wf[q]],
           wd |-> {q \in wd : ~gone(q)}]

----
\* Bounds and input alphabets

MaxPayloadLen == 2
MaxObjects == 2

\* NUL, an ASCII letter, and a byte that occurs in no UTF-8 text
Bytes == {NUL, 97, 255}

Payloads == UNION {[1..k -> Bytes] : k \in 0..MaxPayloadLen}

PayloadOids == {hash_object(p, t) : p \in Payloads, t \in ObjectType}

MaxEntries == 3

\* Entry names of the working directory: "a", "b" and the ignored "target"
WdNames == {<<97>>, <<98>>, S_target}

\* File contents: text, and bytes that are not UTF-8
FileBytes == {<<97>>, <<255>>}

\* Ref names, ref locations, and the objects and values of the ref operations
RefNames == {<<97>>}

RefLocs == {PathHead} \cup {PathBranch(n) : n \in RefNames} \cup {PathTag(n) : n \in RefNames}

RefObjects == {<<<<97>>, "commit">>, <<<<255>>, "blob">>, <<<<>>, "tree">>}

RefOids == {hash_object(o[1], o[2]) : o \in RefObjects}

RefValues == RefOids \cup RefLocs

LocateNames == RefNames \cup {S_HEAD, S_at} \cup RefOids

MaxCommits == 2

\* Commit messages
Messages == {<<109>>}

\* Commit messages of the record codec: a word, the empty message, a message
\* ending in a newline and a message with a blank line inside
CommitMessages == {<<109>>, <<>>, <<109, LF>>, <<109, LF, LF, 109>>}

\* Commit payloads stored by hand without a tree line: nothing at all, only a
\* parent line, a parent line with a blank line and a message, and a
\* message alone
TreelessPayloads ==
  {<<>>,
   S_parent \o <<SP, 97>>,
   S_parent \o <<SP, 97, LF, LF, 109>>,
   <<109>>}

\* Directory names of the trees init is started in
InitNames == {<<97>>, <<98>>}

\* Directory names of the trees that are emptied: plain and ignored
EmptyNames == {<<97>>, S_target}

\* The objects of the store operations: a commit and a blob
StoreObjects == {<<<<97>>, "commit">>, <<<<255>>, "blob">>}

StoreOids == {hash_object(o[1], o[2]) : o \in StoreObjects}

\* Tag names: a plain name, and the absolute path of a file of the repository
TagNames == RefNames \cup {PathOID(o) : o \in StoreOids}

----
\* State

Init ==
  /\ repo = FALSE
  /\ fs = EmptyF
  /\ wdFiles = EmptyF
  /\ wdDirs = {}
  /\ ret = Ret("start", "ok", <<>>, <<>>, "")

\* data::init
DoInit ==
  /\ IF repo
     THEN /\ ret' = Ret("init", "RepositoryAlreadyExists", <<>>, <<>>, "")
          /\ UNCHANGED repo
     ELSE /\ repo' = TRUE
          /\ ret' = Ret("init", "ok", <<>>, <<>>, "")
  /\ UNCHANGED <<fs, wdFiles, wdDirs>>

\* data::hash_object
Put(p, t) ==
  /\ IF ~repo
     THEN /\ ret' = Ret("put", "RepositoryNotFound", <<>>, p, t)
          /\ UNCHANGED fs
     ELSE /\ \/ PathOID(hash_object(p, t)) \in DOMAIN fs
             \/ Cardinality(ObjPaths(fs)) < MaxObjects
          /\ fs' = WriteF(fs, PathOID(hash_object(p, t)), ObjectContents(p, t))
          /\ ret' = Ret("put", "ok", hash_object(p, t), p, t)
  /\ UNCHANGED <<repo, wdFiles, wdDirs>>

\* data::get_object
Get(oid, t) ==
  /\ \E res \in {get_object(fs, repo, oid, t)} :
       ret' = Ret("get", res.st, res.val, oid, t)
  /\ UNCHANGED <<repo, fs, wdFiles, wdDirs>>

\* The user creates a regular file in the working directory.
CreateFile(parent, name, contents) ==
  /\ parent \in wdDirs \cup {<<>>}
  /\ Append(parent, name) \notin DOMAIN wdFiles \cup wdDirs
  /\ Cardinality(DOMAIN wdFiles) + Cardinality(wdDirs) < MaxEntries
  /\ wdFiles' = [q \in DOMAIN wdFiles \cup {Append(parent, name)} |->
                   IF q = Append(parent, name) THEN contents ELSE wdFiles[q]]
  /\ ret' = Ret("edit", "ok", <<>>, <<>>, "")
  /\ UNCHANGED <<repo, fs, wdDirs>>

\* The user creates a directory in the working directory.
Mkdir(parent, name) ==
  /\ parent \in wdDirs \cup {<<>>}
  /\ Append(parent, name) \notin DOMAIN wdFiles \cup wdDirs
  /\ Cardinality(DOMAIN wdFiles) + Cardinality(wdDirs) < MaxEntries
  /\ wdDirs' = wdDirs \cup {Append(parent, name)}
  /\ ret' = Ret("edit", "ok", <<>>, <<>>, "")
  /\ UNCHANGED <<repo, fs, wdFiles>>

\* base::write_tree
WriteTree ==
  /\ IF ~repo
     THEN /\ ret' = Ret("write_tree", "RepositoryNotFound", <<>>, <<>>, "")
          /\ UNCHANGED fs
     ELSE \E ord \in ReadDirOrders(wdFiles, wdDirs) :
            /\ fs' = Overlay(fs, TreeObjects(wdFiles, wdDirs, ord))
            /\ ret' = Ret("write_tree", "ok",
                          write_tree_recursive(wdFiles, wdDirs, <<>>, ord), <<>>, "")
  /\ UNCHANGED <<repo, wdFiles, wdDirs>>

\* base::read_tree
ReadTree(root_oid) ==
  \E res \in {read_tree(fs, repo, wdFiles, wdDirs, root_oid)} :
     /\ repo' = res.r
     /\ fs' = res.f
     /\ wdFiles' = res.wf
     /\ wdDirs' = res.wd
     /\ ret' = Ret("read_tree", res.st, <<>>, root_oid, "")

StoredOids == {Tail(p) : p \in ObjPaths(fs)}

\* The directory is filled, then snapshotted and restored.
NextTree ==
  \/ DoInit
  \/ /\ fs = EmptyF
     /\ \E parent \in wdDirs \cup {<<>>}, name \in WdNames, c \in FileBytes :
          CreateFile(parent, name, c)
  \/ /\ fs = EmptyF
     /\ \E parent \in wdDirs \cup {<<>>}, name \in WdNames : Mkdir(parent, name)
  \/ WriteTree
  \/ \E oid \in StoredOids : ReadTree(oid)

SpecTree == Init /\ [][NextTree]_vars

\* data::update_ref
UpdateRef(path, symbolic, has, value, deref) ==
  /\ \E res \in {update_ref(fs, repo, wdFiles,
                            RefValue(symbolic, has, value, path), deref)} :
       /\ fs' = res.f
       /\ ret' = RetRef("update_ref", res.st, <<>>, has, symbolic, path, <<>>, deref)
  /\ UNCHANGED <<repo, wdFiles, wdDirs>>

\* data::get_ref
GetRef(path, deref) ==
  /\ \E res \in {get_ref(fs, repo, wdFiles, path, deref)} :
       ret' = RetRef("get_ref", res.st, res.value, res.has, res.symbolic,
                     path, <<>>, deref)
  /\ UNCHANGED <<repo, fs, wdFiles, wdDirs>>

\* data::set_head
SetHead(oid) ==
  /\ \E res \in {set_head(fs, repo, oid)} :
       /\ fs' = res.f
       /\ ret' = RetRef("set_head", res.st, <<>>, TRUE, FALSE, PathHead, <<>>, FALSE)
  /\ UNCHANGED <<repo, wdFiles, wdDirs>>

\* data::get_head
GetHead ==
  /\ \E res \in {get_head(fs, repo, wdFiles)} :
       ret' = RetRef("get_head", res.st, res.val, res.st = "ok", FALSE,
                     PathHead, <<>>, FALSE)
  /\ UNCHANGED <<repo, fs, wdFiles, wdDirs>>

\* data::locate_ref_or_oid
Locate(s) ==
  /\ \E res \in {locate_ref_or_oid(fs, repo, wdFiles, s)} :
       ret' = RetRef("locate", res.st, res.val, res.st = "ok", FALSE, s, <<>>, FALSE)
  /\ UNCHANGED <<repo, fs, wdFiles, wdDirs>>

\* An operation that only reads, or that fails before it writes, leaves the
\* state it was called in: whatever can follow it can follow that state.  The
\* search therefore continues from the results of the other operations only.
ReadOnlyOps == {"get", "get_ref", "get_head", "locate", "get_commit"}

WriteOrFailOps == {"init", "put", "update_ref", "set_head", "commit", "create_tag"}

Continues ==
  /\ ret.op \notin ReadOnlyOps
  /\ ~(ret.op \in WriteOrFailOps /\ ret.st # "ok")

NextRef ==
  \/ Continues /\ DoInit
  \/ Continues /\ \E o \in RefObjects : Put(o[1], o[2])
  \/ /\ Continues
     /\ \E path \in RefLocs, symbolic \in BOOLEAN, value \in RefValues, deref \in BOOLEAN :
          UpdateRef(path, symbolic, TRUE, value, deref)
  \/ /\ Continues
     /\ \E path \in RefLocs, deref \in BOOLEAN : UpdateRef(path, FALSE, FALSE, <<>>, deref)
  \/ Continues /\ \E path \in RefLocs, deref \in BOOLEAN : GetRef(path, deref)
  \/ Continues /\ \E oid \in RefValues : SetHead(oid)
  \/ Continues /\ GetHead
  \/ Continues /\ \E oid \in RefOids, t \in ObjectType : Get(oid, t)
  \/ Continues /\ \E s \in LocateNames : Locate(s)

SpecRef == Init /\ [][NextRef]_vars

\* base::commit
Commit(message) ==
  /\ IF ~repo
     THEN /\ ret' = Ret("commit", "RepositoryNotFound", <<>>, message, "")
          /\ UNCHANGED fs
     ELSE \E ord \in ReadDirOrders(wdFiles, wdDirs) :
            \E res \in {commit(Overlay(fs, TreeObjects(wdFiles, wdDirs, ord)), repo,
                               wdFiles,
                               write_tree_recursive(wdFiles, wdDirs, <<>>, ord),
                               message)} :
              /\ fs' = res.f
              /\ ret' = Ret("commit", res.st, res.val, message, "")
  /\ UNCHANGED <<repo, wdFiles, wdDirs>>

\* base::checkout
Checkout(oid) ==
  \E res \in {checkout(fs, repo, wdFiles, wdDirs, oid)} :
     /\ repo' = res.r
     /\ fs' = res.f
     /\ wdFiles' = res.wf
     /\ wdDirs' = res.wd
     /\ ret' = Ret("checkout", res.st, <<>>, oid, "")

\* base::create_tag
CreateTag(name, oid) ==
  /\ \E res \in {create_tag(fs, repo, wdFiles, name, oid)} :
       /\ fs' = res.f
       /\ ret' = RetRef("create_tag", res.st, <<>>, TRUE, FALSE, name, <<>>, TRUE)
  /\ UNCHANGED <<repo, wdFiles, wdDirs>>

CommitOids == {oid \in StoredOids : SplitN2(fs[PathOID(oid)], NUL)[1] = S_commit}

\* The OIDs under which commit objects were stored, whatever their files hold
\* now: the digests of contents tagged commit.
CommitsStored ==
  {oid \in StoredOids :
     /\ Len(oid) >= 2
     /\ oid[1] = DigestOpen
     /\ SplitN2(SubSeq(oid, 2, Len(oid) - 1), NUL)[1] = S_commit}

\* The commit graph: commits of a changing working directory, and the
\* operations that move HEAD.
Next ==
  \/ Continues /\ DoInit
  \/ Continues /\ \E c \in FileBytes : CreateFile(<<>>, <<97>>, c)
  \/ /\ Continues
     /\ Cardinality(CommitsStored) < MaxCommits
     /\ \E message \in Messages : Commit(message)
  \/ Continues /\ \E oid \in StoredOids : Checkout(oid)
  \/ Continues /\ \E oid \in CommitOids : SetHead(oid)
  \/ Continues /\ \E oid \in CommitOids : UpdateRef(PathBranch(<<97>>), FALSE, TRUE, oid, TRUE)
  \/ Continues /\ UpdateRef(PathHead, TRUE, TRUE, PathBranch(<<97>>), FALSE)

Spec == Init /\ [][Next]_vars

\* Every operation that writes under .ugit, on one working file.
NextStore ==
  \/ Continues /\ DoInit
  \/ Continues /\ \E o \in StoreObjects : Put(o[1], o[2])
  \/ Continues /\ CreateFile(<<>>, <<97>>, <<97>>)
  \/ /\ Continues
     /\ Cardinality(CommitsStored) < MaxCommits
     /\ \E message \in Messages : Commit(message)
  \/ Continues /\ \E oid \in StoredOids : Checkout(oid)
  \/ Continues /\ \E oid \in StoredOids : ReadTree(oid)
  \/ Continues /\ \E oid \in StoreOids : SetHead(oid)
  \/ Continues /\ \E name \in TagNames, oid \in StoreOids : CreateTag(name, oid)
  \/ /\ Continues
     /\ \E oid \in StoreOids, deref \in BOOLEAN :
          UpdateRef(PathBranch(<<97>>), FALSE, TRUE, oid, deref)

SpecStore == Init /\ [][NextStore]_vars

\* A tree and a commit of it stored by hand, so that a commit exists while
\* HEAD does not.
CheckoutObjects ==
  {<<<<>>, "tree">>,
   <<CommitPayload(hash_object(<<>>, "tree"), FALSE, <<>>, <<109>>), "commit">>}

\* Checkout of commits of a working directory with a file, a directory and a
\* file inside it, with HEAD absent, direct or symbolic.
NextCheckout ==
  \/ Continues /\ DoInit
  \/ Continues /\ \E o \in CheckoutObjects : Put(o[1], o[2])
  \/ Continues /\ \E parent \in wdDirs \cup {<<>>} : CreateFile(parent, <<97>>, <<97>>)
  \/ Continues /\ Mkdir(<<>>, <<98>>)
  \/ /\ Continues
     /\ Cardinality(CommitsStored) < MaxCommits
     /\ \E message \in Messages : Commit(message)
  \/ Continues /\ \E oid \in CommitOids : Checkout(oid)
  \/ Continues /\ \E oid \in CommitOids : UpdateRef(PathBranch(<<97>>), FALSE, TRUE, oid, TRUE)
  \/ Continues /\ UpdateRef(PathHead, TRUE, TRUE, PathBranch(<<97>>), FALSE)

SpecCheckout == Init /\ [][NextCheckout]_vars

\* base::get_commit: val is the record returned.
GetCommit(oid) ==
  /\ \E res \in {get_commit(fs, repo, oid)} :
       ret' = RetRef("get_commit", res.st, res, res.has_parent, FALSE, oid,
                     res.parent, FALSE)
  /\ UNCHANGED <<repo, fs, wdFiles, wdDirs>>

\* The commit record codec: commits of every message with HEAD absent, direct
\* or symbolic, commit payloads stored by hand, and the decoding of both.
NextCommit ==
  \/ Continues /\ DoInit
  \/ Continues /\ CreateFile(<<>>, <<97>>, <<97>>)
  \/ Continues /\ \E p \in TreelessPayloads : Put(p, "commit")
  \/ /\ Continues
     /\ Cardinality(CommitsStored) < MaxCommits
     /\ \E message \in CommitMessages : Commit(message)
  \/ Continues /\ \E oid \in StoredOids : GetCommit(oid)
  \/ Continues /\ \E oid \in CommitOids : UpdateRef(PathBranch(<<97>>), FALSE, TRUE, oid, TRUE)
  \/ Continues /\ UpdateRef(PathHead, TRUE, TRUE, PathBranch(<<97>>), FALSE)

SpecCommit == Init /\ [][NextCommit]_vars

\* data::init started in the directory cwd.  repo tells whether a repository
\* is discoverable from the top directory, where the other operations run.
InitAt(cwd) ==
  /\ \E res \in {init(wdFiles, wdDirs, cwd)} :
       /\ wdDirs' = res.wd
       /\ repo' = repository_initialized(wdFiles, res.wd, <<>>)
       /\ ret' = Ret("init", res.st, <<>>, cwd, "")
  /\ UNCHANGED <<fs, wdFiles>>

\* init in a tree of directories, started in any of them, with the
\* operations that fill the repository of the top directory.
NextInit ==
  \/ Continues /\ \E parent \in wdDirs \cup {<<>>}, name \in InitNames : Mkdir(parent, name)
  \/ Continues /\ \E cwd \in wdDirs \cup {<<>>} : InitAt(cwd)
  \/ Continues /\ \E o \in StoreObjects : Put(o[1], o[2])
  \/ Continues /\ \E oid \in StoreOids : SetHead(oid)
  \/ Continues /\ GetHead

SpecInit == Init /\ [][NextInit]_vars

\* The history: commits of a changing working directory with checkout,
\* set_head and create_tag between them.  HEAD is set to a commit or to the
\* path of the tag; a tag is named plainly or by the path of a stored commit.
NextLog ==
  \/ Continues /\ DoInit
  \/ Continues /\ CreateFile(<<>>, <<97>>, <<97>>)
  \/ /\ Continues
     /\ Cardinality(CommitsStored) < MaxCommits
     /\ \E message \in Messages : Commit(message)
  \/ Continues /\ \E oid \in CommitOids : Checkout(oid)
  \/ Continues /\ \E oid \in CommitOids \cup {PathTag(<<97>>)} : SetHead(oid)
  \/ /\ Continues
     /\ \E name \in RefNames \cup {PathOID(o) : o \in CommitOids}, oid \in CommitOids :
          CreateTag(name, oid)

SpecLog == Init /\ [][NextLog]_vars

\* base::empty_current_directory started in the directory cwd.  The files of
\* the repository of the top directory stay while its .ugit does.
EmptyAt(cwd) ==
  /\ \E res \in {empty_current_directory(wdFiles, wdDirs, cwd)} :
       /\ wdFiles' = res.wf
       /\ wdDirs' = res.wd
       /\ repo' = repository_initialized(res.wf, res.wd, <<>>)
       /\ fs' = IF repository_initialized(res.wf, res.wd, <<>>) THEN fs ELSE EmptyF
       /\ ret' = Ret("empty_current_directory", res.st, <<>>, cwd, "")

\* Directories with files, sub-directories and the ignored entry target are
\* built, repositories are created in them and filled, and the directories
\* are emptied.
NextEmpty ==
  \/ Continues /\ \E parent \in wdDirs \cup {<<>>}, name \in EmptyNames : Mkdir(parent, name)
  \/ Continues /\ \E parent \in wdDirs \cup {<<>>} : CreateFile(parent, <<98>>, <<97>>)
  \/ Continues /\ \E cwd \in wdDirs \cup {<<>>} : InitAt(cwd)
  \/ Continues /\ Put(<<97>>, "commit")
  \/ Continues /\ SetHead(hash_object(<<97>>, "commit"))
  \/ Continues /\ \E cwd \in wdDirs \cup {<<>>} : EmptyAt(cwd)

SpecEmpty == Init /\ [][NextEmpty]_vars

\* base::commit one write at a time.  ret holds the position of the process:
\* st = "tree_written" after write_tree, with the tree OID in val, and
\* st = "object_stored" after hash_object, with the commit OID in val.
CommitWriteTree(message) ==
  /\ IF ~repo
     THEN /\ ret' = Ret("commit", "RepositoryNotFound", <<>>, message, "")
          /\ UNCHANGED fs
     ELSE \E ord \in ReadDirOrders(wdFiles, wdDirs) :
            /\ fs' = Overlay(fs, TreeObjects(wdFiles, wdDirs, ord))
            /\ ret' = Ret("commit", "tree_written",
                          write_tree_recursive(wdFiles, wdDirs, <<>>, ord), message, "")
  /\ UNCHANGED <<repo, wdFiles, wdDirs>>

CommitStore ==
  /\ ret.op = "commit"
  /\ ret.st = "tree_written"
  /\ \E res \in {commit_store(fs, repo, wdFiles, ret.val, ret.arg)} :
       /\ fs' = res.f
       /\ ret' = Ret("commit", IF res.st = "ok" THEN "object_stored" ELSE res.st,
                     res.val, ret.arg, "")
  /\ UNCHANGED <<repo, wdFiles, wdDirs>>

CommitMoveHead ==
  /\ ret.op = "commit"
  /\ ret.st = "object_stored"
  /\ \E res \in {set_head(fs, repo, ret.val)} :
       /\ fs' = res.f
       /\ ret' = Ret("commit", res.st, ret.val, ret.arg, "")
  /\ UNCHANGED <<repo, wdFiles, wdDirs>>

\* The process dies between two writes of commit: the files stay as they are.
Crash ==
  /\ ret.op = "commit"
  /\ ret.st \in {"tree_written", "object_stored"}
  /\ ret' = Ret("crash", ret.st, ret.val, ret.arg, "")
  /\ UNCHANGED <<repo, fs, wdFiles, wdDirs>>

\* Commits that run one write at a time and may die on the way, with
\* checkout and set_head of commits between them.
NextCrash ==
  \/ Continues /\ DoInit
  \/ Continues /\ \E c \in FileBytes : CreateFile(<<>>, <<97>>, c)
  \/ /\ Continues
     /\ Cardinality(CommitsStored) < MaxCommits
     /\ \E message \in Messages : CommitWriteTree(message)
  \/ CommitStore
  \/ CommitMoveHead
  \/ Crash
  \/ Continues /\ \E oid \in CommitOids : Checkout(oid)
  \/ Continues /\ \E oid \in CommitOids : SetHead(oid)

SpecCrash == Init /\ [][NextCrash]_vars

\* Checkout of every stored OID, commits and others, in a working directory
\* whose file may hold bytes read_tree cannot restore.
NextOrder ==
  \/ Continues /\ DoInit
  \/ Continues /\ \E c \in FileBytes : CreateFile(<<>>, <<97>>, c)
  \/ /\ Continues
     /\ Cardinality(CommitsStored) < MaxCommits
     /\ \E message \in Messages : Commit(message)
  \/ Continues /\ \E oid \in StoredOids : Checkout(oid)

SpecOrder == Init /\ [][NextOrder]_vars

NextObj ==
  \/ Continues /\ DoInit
  \/ Continues /\ \E p \in Payloads, t \in ObjectType : Put(p, t)
  \/ Continues /\ \E oid \in PayloadOids, t \in ObjectType : Get(oid, t)

SpecObj == Init /\ [][NextObj]_vars

----
\* C1: inside an initialized repository, getting a stored object with the tag
\* it was put under returns exactly the payload that was put, for every byte
\* payload (null bytes included) and every tag.
C1_RoundTrip ==
  \A p \in Payloads :
    (/\ ret.op = "get"
     /\ repo
     /\ ret.arg = hash_object(p, ret.typ)
     /\ PathOID(ret.arg) \in DOMAIN fs)
      => (ret.st = "ok" /\ ret.val = p)

\* C2: getting a stored object under a tag other than the one it was put
\* under fails with TypeMismatch and returns no payload; getting an OID with
\* no stored object fails with ObjectNotFound; neither changes the files
\* under .ugit (objects and refs).
C2_TypeTagFidelity ==
  [][(ret'.op = "get" /\ repo) =>
       /\ fs' = fs
       /\ \A p \in Payloads, t \in ObjectType :
            (/\ ret'.arg = hash_object(p, t)
             /\ PathOID(ret'.arg) \in DOMAIN fs
             /\ t # ret'.typ)
              => (ret'.st = "TypeMismatch" /\ ~ret'.has /\ ret'.val = <<>>)
       /\ PathOID(ret'.arg) \notin DOMAIN fs => ret'.st = "ObjectNotFound"
    ]_vars

\* C3: objects are write-once.  No operation removes a stored object or
\* changes the bytes its file holds, and putting content that is already
\* stored returns the OID it is stored under and leaves the store unchanged.
C3_WriteOnce ==
  [][/\ \A p \in ObjPaths(fs) : p \in DOMAIN fs' /\ fs'[p] = fs[p]
     /\ (/\ ret'.op = "put"
         /\ ret'.st = "ok"
         /\ \E q \in ObjPaths(fs) : fs[q] = ObjectContents(ret'.arg, ret'.typ))
        => (/\ fs' = fs
            /\ PathOID(ret'.val) \in DOMAIN fs
            /\ fs[PathOID(ret'.val)] = ObjectContents(ret'.arg, ret'.typ))]_vars

\* The value HEAD holds: the contents of its file, the pointer of a symbolic
\* HEAD without its marker.
HeadValue(f) ==
  IF StartsWith(f[PathHead], S_ref)
  THEN SubSeq(f[PathHead], Len(S_ref) + 1, Len(f[PathHead]))
  ELSE f[PathHead]

\* The header of the commit record stored under oid.
StoredHeader(f, oid) ==
  CommitHeader(Lines(SplitN2(f[PathOID(oid)], NUL)[2]), 1, <<>>, FALSE, <<>>)

\* C4: commit chain.  The record a successful commit stores has no parent
\* when HEAD did not exist, and otherwise the parent is the value HEAD held
\* just before; afterwards HEAD holds the OID the commit returned.  A commit
\* that directly follows a commit has that commit's OID as its parent.
C4_CommitChain ==
  [][(ret'.op = "commit" /\ ret'.st = "ok")
       => /\ PathOID(ret'.val) \in DOMAIN fs'
          /\ SplitN2(fs'[PathOID(ret'.val)], NUL)[1] = S_commit
          /\ StoredHeader(fs', ret'.val).st = "ok"
          /\ StoredHeader(fs', ret'.val).has_parent = (PathHead \in DOMAIN fs)
          /\ (PathHead \in DOMAIN fs
                => StoredHeader(fs', ret'.val).parent = HeadValue(fs))
          /\ ((ret.op = "commit" /\ ret.st = "ok")
                => StoredHeader(fs', ret'.val).parent = ret.val)
          /\ PathHead \in DOMAIN fs'
          /\ fs'[PathHead] = ret'.val]_vars

\* A second commit: its parent is a commit without parent, and HEAD holds it.
C4_Witness ==
  /\ ret.op = "commit"
  /\ ret.st = "ok"
  /\ fs[PathHead] = ret.val
  /\ StoredHeader(fs, ret.val).has_parent
  /\ StoredHeader(fs, ret.val).parent \in CommitsStored
  /\ ~StoredHeader(fs, StoredHeader(fs, ret.val).parent).has_parent

\* C5: read_tree of the OID write_tree just returned leaves the working
\* directory with exactly the relative paths (files and directories) and
\* the file contents it had, for every directory.
C5_SnapshotRestore ==
  [][(/\ ret.op = "write_tree"
      /\ ret.st = "ok"
      /\ ret'.op = "read_tree"
      /\ ret'.arg = ret.val)
       => (ret'.st = "ok" /\ wdFiles' = wdFiles /\ wdDirs' = wdDirs)]_vars

\* C6: two write_tree calls on a working directory with the same contents
\* return the same root tree OID, whatever order read_dir enumerates in.
C6_WriteTreePure ==
  [][(/\ ret.op = "write_tree"
      /\ ret.st = "ok"
      /\ ret'.op = "write_tree"
      /\ ret'.st = "ok"
      /\ wdFiles' = wdFiles
      /\ wdDirs' = wdDirs)
       => ret'.val = ret.val]_vars

\* v is the OID of a stored commit object.
IsCommitOid(f, v) ==
  /\ PathOID(v) \in ObjPaths(f)
  /\ v = Sha256Hex(f[PathOID(v)])
  /\ StartsWith(f[PathOID(v)], S_commit \o <<NUL>>)

\* The four checks of locate as the claim words them.
LocateHits(s) ==
  (IF PathTag(s) \in DOMAIN fs THEN {"tag"} ELSE {})
    \cup (IF PathBranch(s) \in DOMAIN fs THEN {"branch"} ELSE {})
    \cup (IF PathOID(s) \in ObjPaths(fs) THEN {"oid"} ELSE {})
    \cup (IF (s = S_HEAD \/ s = S_at) /\ PathHead \in DOMAIN fs THEN {"head"} ELSE {})

\* C7: locate(name) is AmbiguousReference when more than one of the four
\* checks (tag exists, branch exists, stored object with that OID exists,
\* name is HEAD or @ and HEAD exists) succeeds, a resolution when exactly one
\* does, and "not found" when none does.
C7_LocateClassifies ==
  (ret.op = "locate" /\ repo) =>
     /\ Cardinality(LocateHits(ret.arg)) > 1 => ret.st = "AmbiguousReference"
     /\ Cardinality(LocateHits(ret.arg)) = 1 => ret.st = "ok"
     /\ Cardinality(LocateHits(ret.arg)) = 0 => ret.st = "none"

\* The location of the only check that succeeded.
LocatedPath(s) ==
  CASE LocateHits(s) = {"tag"} -> PathTag(s)
    [] LocateHits(s) = {"branch"} -> PathBranch(s)
    [] LocateHits(s) = {"oid"} -> PathOID(s)
    [] LocateHits(s) = {"head"} -> PathHead

C9_RefChain ==
  [][\A A \in RefLocs, B \in RefLocs, d \in BOOLEAN :
       (/\ ret'.op = "update_ref"
        /\ ret'.st = "ok"
        /\ ret'.arg = A
        /\ A # B
        /\ B \in DOMAIN fs
        /\ IsCommitOid(fs, fs[B])
        /\ UpdateRef(A, TRUE, TRUE, B, d))
         => /\ get_ref(fs', repo', wdFiles', A, TRUE)
                 = RefRes("ok", FALSE, TRUE, fs[B], A)
            /\ get_ref(fs', repo', wdFiles', A, FALSE).st = "ok"
            /\ get_ref(fs', repo', wdFiles', A, FALSE).value = B]_vars

C9_Witness ==
  /\ ret.op = "update_ref"
  /\ ret.st = "ok"
  /\ ret.sym
  /\ \E B \in RefLocs \ {ret.arg} :
       /\ B \in DOMAIN fs
       /\ IsCommitOid(fs, fs[B])
       /\ fs[ret.arg] = S_ref \o B

\* C10: reading without dereferencing a ref whose file holds a symbolic
\* pointer returns symbolic = true; reading a ref that holds a direct OID,
\* and a dereferencing read that ends at a direct OID, return symbolic =
\* false.
C10_SymbolicFlag ==
  (ret.op = "get_ref" /\ ret.st = "ok" /\ ret.has) =>
     IF ~ret.deref /\ StartsWith(fs[ret.arg], S_ref)
     THEN ret.sym
     ELSE ~ret.sym

\* C11: a write with dereferencing to a location A whose file holds a
\* symbolic pointer to ref B, B holding a value directly, puts the new value
\* into B and leaves the file of A as it was; a write without dereferencing
\* puts the value into A itself.
C11_WriteFollowsChain ==
  [][\A A \in RefLocs, B \in RefLocs, v \in RefValues, d \in BOOLEAN :
       (/\ ret'.op = "update_ref"
        /\ ret'.st = "ok"
        /\ ret'.arg = A
        /\ ~ret'.sym
        /\ A # B
        /\ A \in DOMAIN fs
        /\ B \in DOMAIN fs
        /\ fs[A] = S_ref \o B
        /\ ~StartsWith(fs[B], S_ref)
        /\ UpdateRef(A, FALSE, TRUE, v, d))
         => IF d
            THEN fs'[B] = v /\ fs'[A] = fs[A]
            ELSE fs'[A] = v /\ fs'[B] = fs[B]]_vars

\* The value v names a stored object tagged blob or tree, or no file at all.
InvalidTarget(f, v) ==
  \/ PathOID(v) \notin DOMAIN f
  \/ /\ PathOID(v) \in ObjPaths(f)
     /\ SplitN2(f[PathOID(v)], NUL)[1] \in {S_blob, S_tree}

\* C12: in an initialized repository a ref write (update_ref or set_head)
\* whose value names a blob object, a tree object or no stored object aborts
\* as a contract violation and changes no file.
C12_InvalidTargetAborts ==
  [][\A v \in RefValues :
       /\ \A path \in RefLocs, symbolic \in BOOLEAN, d \in BOOLEAN :
            ~(/\ ret'.op = "update_ref"
              /\ ~(ret'.st = "panic" /\ fs' = fs)
              /\ repo
              /\ ret'.arg = path
              /\ InvalidTarget(fs, v)
              /\ UpdateRef(path, symbolic, TRUE, v, d))
       /\ ~(/\ ret'.op = "set_head"
            /\ ~(ret'.st = "panic" /\ fs' = fs)
            /\ repo
            /\ InvalidTarget(fs, v)
            /\ SetHead(v))]_vars

\* The file of ref p holds a symbolic pointer to a ref location or to the
\* OID of a stored commit, or holds the OID of a stored commit itself.
RefFileValid(f, p) ==
  IF StartsWith(f[p], S_ref)
  THEN \/ SubSeq(f[p], Len(S_ref) + 1, Len(f[p])) \in RefLocs
       \/ IsCommitOid(f, SubSeq(f[p], Len(S_ref) + 1, Len(f[p])))
  ELSE IsCommitOid(f, f[p])

\* C13: after every accepted write each ref file holds a symbolic pointer to
\* another ref or the OID of a stored commit, and a symbolic write whose
\* target is an existing ref, symbolic or not, is accepted.
C13_RefValidity ==
  [][/\ \A p \in RefLocs \cap DOMAIN fs' : RefFileValid(fs', p)
     /\ \A A \in RefLocs, B \in RefLocs \cap DOMAIN fs, d \in BOOLEAN :
          (/\ ret'.op = "update_ref"
           /\ ret'.st # "ok"
           /\ ret'.sym
           /\ ret'.arg = A
           /\ UpdateRef(A, TRUE, TRUE, B, d))
            => FALSE]_vars

\* C14: in an initialized repository update_ref with value None aborts as a
\* contract error and changes no file, for either value of the dereference
\* flag.
C14_EmptyValueAborts ==
  [][(ret'.op = "update_ref" /\ ~ret'.has /\ repo)
       => (ret'.st = "panic" /\ fs' = fs)]_vars

ObjectAndRefOps ==
  {"put", "get", "get_ref", "update_ref", "set_head", "get_head", "locate"}

\* C15: outside a repository every object and ref operation returns
\* RepositoryNotFound and writes nothing, also when its arguments break a
\* contract (update_ref with value None, set_head with an invalid OID).
C15_RepositoryNotFoundFirst ==
  [][(~repo /\ ret'.op \in ObjectAndRefOps)
       => /\ ret'.st = "RepositoryNotFound"
          /\ UNCHANGED <<repo, fs, wdFiles, wdDirs>>]_vars

C15_Witness ==
  /\ ~repo
  /\ ret.op = "update_ref"
  /\ ~ret.has
  /\ ret.st = "RepositoryNotFound"

\* The payload stored under oid, as bytes.
StoredPayload(f, oid) == SplitN2(f[PathOID(oid)], NUL)[2]

\* The directories a stored tree records: its tree entries, at any depth.
RECURSIVE RecordedDirs(_, _, _)
RecordedDirs(f, oid, base_path) ==
  LET lines == Lines(StoredPayload(f, oid)) IN
  UNION {IF SplitN(lines[k], 3, SP)[1] = S_tree
         THEN {Append(base_path, SplitN(lines[k], 3, SP)[3])}
                \cup RecordedDirs(f, SplitN(lines[k], 3, SP)[2],
                                  Append(base_path, SplitN(lines[k], 3, SP)[3]))
         ELSE {} : k \in 1..Len(lines)}

\* The files a stored tree records, with the payloads of their blobs.
RecordedFiles(f, oid) ==
  LET pairs == get_tree(f, TRUE, oid, <<>>).pairs IN
  {<<pairs[k][1], StoredPayload(f, pairs[k][2])>> : k \in 1..Len(pairs)}

\* C16: after a successful checkout of a commit OID, HEAD holds that OID as
\* a direct value, whatever it held before, and the working directory
\* (outside the entries checkout never touches) holds the files and the
\* directories the tree of the commit records.
C16_CheckoutSetsHead ==
  [][(ret'.op = "checkout" /\ ret'.st = "ok")
       => /\ PathHead \in DOMAIN fs'
          /\ fs'[PathHead] = ret'.arg
          /\ IsCommitOid(fs', ret'.arg)
          /\ {<<q, wdFiles'[q]>> : q \in {x \in DOMAIN wdFiles' : Visited(x)}}
               = RecordedFiles(fs', StoredHeader(fs', ret'.arg).tree)
          /\ {q \in wdDirs' : Visited(q)}
               = RecordedDirs(fs', StoredHeader(fs', ret'.arg).tree, <<>>)]_vars

\* C17: the record decoded from the commit a successful commit stored holds
\* the OID write_tree returned as its tree, the value HEAD held before as its
\* parent (none when HEAD did not exist) and the message given, for every
\* message: the empty one, one ending in a newline, one with a blank line.
C17_CommitRecordRoundTrip ==
  [][(ret'.op = "commit" /\ ret'.st = "ok")
       => \E rec \in {get_commit(fs', repo', ret'.val)} :
            /\ rec.st = "ok"
            /\ rec.tree \in {write_tree_recursive(wdFiles, wdDirs, <<>>, ord) :
                               ord \in ReadDirOrders(wdFiles, wdDirs)}
            /\ rec.has_parent = (PathHead \in DOMAIN fs)
            /\ (PathHead \in DOMAIN fs => rec.parent = HeadValue(fs))
            /\ rec.message = ret'.arg]_vars

\* No line of the payload is a tree line.
LacksTreeLine(payload) ==
  \A k \in 1..Len(Lines(payload)) : SplitN(Lines(payload)[k], 2, SP)[1] # S_tree

\* C18: decoding a stored commit-tagged object whose payload has no tree
\* line returns MissingTreeField, whatever else the payload holds: only a
\* parent line, no blank line, no message, or nothing at all.
C18_MissingTreeField ==
  (/\ ret.op = "get_commit"
   /\ repo
   /\ PathOID(ret.arg) \in DOMAIN fs
   /\ SplitN2(fs[PathOID(ret.arg)], NUL)[1] = S_commit
   /\ LacksTreeLine(StoredPayload(fs, ret.arg)))
    => ret.st = "MissingTreeField"

\* C19: a dereferencing read terminates in every state the accepted ref
\* writes can reach, a ref written symbolically to itself included: it never
\* ends in the stack overflow of a recursion that does not stop.
C19_DerefTerminates ==
  (ret.op = "get_ref" /\ ret.deref) => ret.st # "StackOverflow"

\* The chain of symbolic pointers from the file at p reaches a pointer whose
\* target file does not exist.
RECURSIVE ReachesMissing(_, _, _, _)
ReachesMissing(f, w, p, seen) ==
  /\ p \notin seen
  /\ IsFileP(f, w, p)
  /\ StartsWith(ReadP(f, w, p), S_ref)
  /\ \/ ~IsFileP(f, w, SplitN2(ReadP(f, w, p), COLON)[2])
     \/ ReachesMissing(f, w, SplitN2(ReadP(f, w, p), COLON)[2], seen \cup {p})

\* C20: inside a repository, a read of a location with no file returns
\* {symbolic: false, value: None, location}, and a dereferencing read whose
\* chain reaches a symbolic pointer with a missing target file returns a
\* RefValue with value None, not an error.
C20_ReadResilient ==
  (ret.op = "get_ref" /\ repo)
    => /\ ~IsFileP(fs, wdFiles, ret.arg)
            => (ret.st = "ok" /\ ~ret.has /\ ~ret.sym)
       /\ (ret.deref /\ ReachesMissing(fs, wdFiles, ret.arg, {}))
            => (ret.st = "ok" /\ ~ret.has)

\* The directories of a repository rooted at the directory dir.
RepositoryDirs(dir) ==
  {Append(dir, S_ugit),
   <<>> \o dir \o <<S_ugit, S_objects>>,
   <<>> \o dir \o <<S_ugit, S_refs, S_heads>>,
   <<>> \o dir \o <<S_ugit, S_refs, S_tags>>}

\* C21: init started in a directory from which no repository is discoverable
\* creates the repository root there with its objects directory and its
\* refs/heads and refs/tags namespaces and leaves HEAD absent, so that
\* get_head returns None; init started where the directory itself or any
\* ancestor holds a repository fails with RepositoryAlreadyExists and
\* changes nothing.
C21_Init ==
  [][(ret'.op = "init")
       => IF \E p \in Ancestors(ret'.arg) : Append(p, S_ugit) \in wdDirs
          THEN /\ ret'.st = "RepositoryAlreadyExists"
               /\ UNCHANGED <<repo, fs, wdFiles, wdDirs>>
          ELSE /\ ret'.st = "ok"
               /\ RepositoryDirs(ret'.arg) \subseteq wdDirs'
               /\ <<>> \o ret'.arg \o <<S_ugit, S_HEAD>> \notin DOMAIN wdFiles'
               /\ ret'.arg = <<>>
                    => /\ repo'
                       /\ get_head(fs', repo', wdFiles').st = "none"]_vars

\* init started in a sub-directory of a directory that holds a repository,
\* with a commit stored and HEAD set there: it fails.
C21_Witness ==
  /\ ret.op = "init"
  /\ ret.st = "RepositoryAlreadyExists"
  /\ ret.arg # <<>>
  /\ Append(ret.arg, S_ugit) \notin wdDirs
  /\ PathHead \in DOMAIN fs

\* Following parent from the commit oid: "none" when a commit without
\* parent is reached, "cycle" when a commit is reached again, and otherwise
\* the failure of get_commit on the way.
RECURSIVE ParentWalk(_, _, _, _)
ParentWalk(f, r, oid, seen) ==
  IF oid \in seen THEN "cycle"
  ELSE LET rec == get_commit(f, r, oid) IN
       IF rec.st # "ok" THEN rec.st
       ELSE IF ~rec.has_parent THEN "none"
       ELSE ParentWalk(f, r, rec.parent, seen \cup {oid})

\* C22: in every state reached by commit, checkout, set_head and create_tag,
\* following parent from any commit that commit created reaches a commit
\* without parent after finitely many steps.
C22_ParentChainEnds ==
  \A oid \in CommitsStored : ParentWalk(fs, repo, oid, {}) = "none"

\* The entry q of the tree is kept by an emptying of dir: it lies outside
\* dir, or in an entry of dir that the ignore policy excludes.
KeptByEmpty(dir, q) ==
  Under(dir, q) => is_ignored(SubSeq(q, 1, Len(dir) + 1))

C24_HeadNamesStoredCommit ==
  /\ PathHead \in DOMAIN fs => IsCommitOid(fs, fs[PathHead])
  /\ (ret.op \in {"commit", "crash"} /\ ret.st = "object_stored")
       => IsCommitOid(fs, ret.val)
  /\ (ret.op = "commit" /\ ret.st = "ok")
       => (PathHead \in DOMAIN fs /\ fs[PathHead] = ret.val)

\* The process died between the two writes of a second commit: the commit
\* object is stored and HEAD still holds the first commit.
C24_Witness ==
  /\ ret.op = "crash"
  /\ ret.st = "object_stored"
  /\ IsCommitOid(fs, ret.val)
  /\ PathHead \in DOMAIN fs
  /\ fs[PathHead] # ret.val
  /\ StoredHeader(fs, ret.val).parent = fs[PathHead]

\* C25: checkout decodes the commit first, restores the tree second and
\* moves HEAD last.  When get_commit fails on the argument, checkout fails
\* and neither the working directory nor HEAD nor anything else changes;
\* when the commit is decoded and checkout fails all the same, in read_tree,
\* HEAD is as it was.
C25_CheckoutOrder ==
  [][(ret'.op = "checkout")
       => /\ \A rec \in {get_commit(fs, repo, ret'.arg)} :
               rec.st # "ok"
                 => /\ ret'.st = rec.st
                    /\ UNCHANGED <<repo, fs, wdFiles, wdDirs>>
          /\ ret'.st # "ok"
               => /\ (PathHead \in DOMAIN fs') = (PathHead \in DOMAIN fs)
                  /\ PathHead \in DOMAIN fs => fs'[PathHead] = fs[PathHead]]_vars

\* checkout of a stored commit failed in read_tree, on a file that is not
\* UTF-8, after the directory was emptied; HEAD holds another commit.
C25_Witness ==
  /\ ret.op = "checkout"
  /\ ret.st = "InvalidUtf8"
  /\ IsCommitOid(fs, ret.arg)
  /\ get_commit(fs, repo, ret.arg).st = "ok"
  /\ PathHead \in DOMAIN fs
  /\ fs[PathHead] # ret.arg
  /\ wdFiles = EmptyF

====
